---- MODULE Spec2Model ----
(***************************************************************************)
(* Live training-session state machine of Homebase (src/liveWorkout.ts)    *)
(* together with the active-workout store of src/storage.ts.               *)
(*                                                                         *)
(* One action per event handler.  A handler runs to completion (the page   *)
(* is single threaded); the only suspension point is the `await' inside    *)
(* finishWorkout, which is therefore split into the part before the await  *)
(* and the two continuations (save resolved, save rejected).               *)
(*                                                                         *)
(* Indices are 0-based as in the source.  An absent optional field         *)
(* (undefined) is the value None.  The store holds <<>> (key absent) or    *)
(* <<session>>.                                                            *)
(***************************************************************************)
EXTENDS Integers, Sequences, FiniteSets, TLC

VARIABLES
    now,               \* Date.now(), in milliseconds
    catalog,           \* the program catalog: id of a program |-> its displayName
    store,             \* localStorage[ACTIVE_WORKOUT_KEY]
    weightBlob,        \* localStorage[EXERCISE_WEIGHTS_KEY]
    workoutTimer,      \* module variable workoutTimer (interval handle)
    restTimer,         \* module variable restTimer (interval handle)
    workoutLive,       \* number of live workout-duration intervals
    restLive,          \* number of live rest-countdown intervals
    workoutStartTime,  \* module variable workoutStartTime
    restEndTime,       \* module variable restEndTime
    inflight           \* finishWorkout calls suspended at `await addWorkout'

vars == << now, catalog, store, weightBlob, workoutTimer, restTimer,
           workoutLive, restLive, workoutStartTime, restEndTime, inflight >>

----------------------------------------------------------------------------
(* Bounds of the model *)

MaxTicks == 2        \* the clock advances at most this many steps
MaxInFlight == 1     \* finishWorkout calls awaiting the save at one time
MaxExtends == 1      \* addRestTime is applied while the remaining rest is
                     \* shorter than this many extensions
MaxPending == MaxInFlight + 1 \* the same, on the page of SpecEnd

TimeSteps == {500}           \* clock granularity (ms)
InitialTimes == {1000}       \* Date.now() when the page is first loaded
WeightInputs == {100}         \* parsed weight input of a set: a number
MemoryWeightInputs == {0 - 1, 0, 100} \* undefined (empty input), zero, a number
ExtendSeconds == {30}        \* addRestTime(30), the only caller
EditedNames == {"Legs v2"}   \* display names given to a program in the editor
SessionLengths == {59000, 42 * 60000} \* ms a workout lasts: under a minute, 42 minutes

----------------------------------------------------------------------------
(* Values *)

None == 0 - 1          \* undefined / null of a numeric or timestamp field
MsPerSecond == 1000
MsPerMinute == 60000

NullH == "null"        \* handle variable holds null
LiveH == "live"        \* handle of a running interval
ClearedH == "cleared"  \* handle of an interval already cleared

Truthy(x) == x # None /\ x # 0

Max(a, b) == IF a >= b THEN a ELSE b

ZSeq(s) == [i \in 0..(Len(s) - 1) |-> s[i + 1]]

\* the result of Array.prototype.findIndex, given the set of the indices
\* that satisfy the predicate: the lowest of them, or -1
FindIndex(matching) ==
    IF matching = {}
    THEN 0 - 1
    ELSE CHOOSE i \in matching : \A j \in matching : i <= j

----------------------------------------------------------------------------
(* Program catalog: scaled-down programs of the shape of DEFAULT_PROGRAMS  *)

Programs ==
    [ push |-> [ id |-> "push", displayName |-> "Push Day",
                 exercises |-> ZSeq(<<
                    [id |-> "push-1", sets |-> 2, restTime |-> 1],
                    [id |-> "push-2", sets |-> 1, restTime |-> 0] >>) ],
      legs |-> [ id |-> "legs", displayName |-> "Leg Day",
                 exercises |-> ZSeq(<<
                    [id |-> "legs-1", sets |-> 2, restTime |-> 1] >>) ],
      pull |-> [ id |-> "pull", displayName |-> "Pull Day",
                 exercises |-> ZSeq(<<
                    [id |-> "pull-1", sets |-> 1, restTime |-> 1],
                    [id |-> "pull-2", sets |-> 1, restTime |-> 1],
                    [id |-> "pull-3", sets |-> 1, restTime |-> 1],
                    [id |-> "pull-4", sets |-> 2, restTime |-> 0] >>) ],
      custom |-> [ id |-> "custom", displayName |-> "Custom",
                   exercises |-> ZSeq(<<
                    [id |-> "custom-1", sets |-> 1, restTime |-> 1] >>) ] ]

ProgramIds == DOMAIN Programs

\* the programs in the catalog when the page is first loaded
InstalledPrograms == {"push"}

\* the data-program names of the start-program buttons (ProgramType); a
\* program added through the program editor has no such button
StartButtons == {"push", "pull", "legs"}

ExerciseIds ==
    UNION { { Programs[p].exercises[i].id : i \in DOMAIN Programs[p].exercises }
            : p \in ProgramIds }

\* the catalog that holds the programs ids under their original names
CatalogOf(ids) == [p \in ids |-> Programs[p].displayName]

\* getWorkoutProgramById / programs.find(p => p.name === programName)
getWorkoutProgramById(cat, id) ==
    IF id \in DOMAIN cat
    THEN <<[Programs[id] EXCEPT !.displayName = cat[id]]>>
    ELSE <<>>

----------------------------------------------------------------------------
(* Session State Store *)

\* The store is the item of localStorage under ACTIVE_WORKOUT_KEY, held as
\* the value JSON.parse reads from its text: <<>> when the item is absent.

\* In the text of a session a property that JSON.stringify left out, because
\* its value was undefined, is written Omitted
Omitted == 0 - 2

\* JSON.stringify of a property that may be undefined
JSONstringifyOptional(value) == IF value = None THEN Omitted ELSE value

\* a property that may be undefined, as read from the parsed text
JSONparseOptional(text) == IF text = Omitted THEN None ELSE text

\* JSON.stringify(workout)
JSONstringify(workout) ==
    [ workout EXCEPT
        !.restStartTime = JSONstringifyOptional(@),
        !.restDuration = JSONstringifyOptional(@),
        !.exercises =
            [ i \in DOMAIN @ |->
                [ @[i] EXCEPT !.sets =
                    [ j \in DOMAIN @ |->
                        [ @[j] EXCEPT !.completedAt = JSONstringifyOptional(@),
                                      !.weight = JSONstringifyOptional(@) ] ] ] ] ]

\* JSON.parse(data)
JSONparse(data) ==
    [ data EXCEPT
        !.restStartTime = JSONparseOptional(@),
        !.restDuration = JSONparseOptional(@),
        !.exercises =
            [ i \in DOMAIN @ |->
                [ @[i] EXCEPT !.sets =
                    [ j \in DOMAIN @ |->
                        [ @[j] EXCEPT !.completedAt = JSONparseOptional(@),
                                      !.weight = JSONparseOptional(@) ] ] ] ] ]

getActiveWorkout(st) == st

\* saveActiveWorkout that writes no rest anchor
saveActiveWorkout_dropsAnchor(workout) ==
    <<JSONparse(JSONstringify([workout EXCEPT !.restStartTime = None]))>>

saveActiveWorkout(workout) == <<JSONparse(JSONstringify(workout))>>
clearActiveWorkout == <<>>

\* createActiveWorkout that builds one set record too many per exercise
createActiveWorkout_extraSet(program, t) ==
    [ programId |-> program.id,
      programName |-> program.displayName,
      startTime |-> t,
      exercises |->
        [ i \in DOMAIN program.exercises |->
            [ exerciseId |-> program.exercises[i].id,
              sets |-> [ j \in 0..program.exercises[i].sets |->
                          [ setNumber |-> j + 1, completed |-> FALSE,
                            completedAt |-> None, weight |-> None ] ],
              currentSet |-> 0 ] ],
      currentExerciseIndex |-> 0,
      isResting |-> FALSE,
      restStartTime |-> None,
      restDuration |-> None,
      paused |-> FALSE ]

\* createActiveWorkout(program), with new Date() = t
createActiveWorkout(program, t) ==
    [ programId |-> program.id,
      programName |-> program.displayName,
      startTime |-> t,
      exercises |->
        [ i \in DOMAIN program.exercises |->
            [ exerciseId |-> program.exercises[i].id,
              sets |-> [ j \in 0..(program.exercises[i].sets - 1) |->
                          [ setNumber |-> j + 1, completed |-> FALSE,
                            completedAt |-> None, weight |-> None ] ],
              currentSet |-> 0 ] ],
      currentExerciseIndex |-> 0,
      isResting |-> FALSE,
      restStartTime |-> None,
      restDuration |-> None,
      paused |-> FALSE ]

\* the positions <<exerciseIndex, setIndex>> of the sets of a session
SetIds(aw) ==
    UNION { {<<i, j>> : j \in DOMAIN aw.exercises[i].sets} : i \in DOMAIN aw.exercises }

----------------------------------------------------------------------------
(* Weight Memory *)

BlobAbsent == [kind |-> "absent", map |-> [e \in ExerciseIds |-> None]]

\* a stored value that JSON.parse rejects
BlobCorrupt == [kind |-> "corrupt", map |-> [e \in ExerciseIds |-> None]]

\* saveLastUsedWeight(exerciseId, weight); setItemOk = FALSE when
\* localStorage.setItem throws
saveLastUsedWeight(blob, exerciseId, weight, setItemOk) ==
    IF blob.kind = "corrupt" \/ ~setItemOk
    THEN blob
    ELSE [kind |-> "map", map |-> [blob.map EXCEPT ![exerciseId] = weight]]

\* getLastUsedWeight(exerciseId)
getLastUsedWeight(blob, exerciseId) ==
    IF blob.kind = "map" THEN blob.map[exerciseId] ELSE None

----------------------------------------------------------------------------
(* The page's mutable state, threaded through the helper functions *)

Mach == [ store |-> store,
          workoutTimer |-> workoutTimer, restTimer |-> restTimer,
          workoutLive |-> workoutLive, restLive |-> restLive,
          workoutStartTime |-> workoutStartTime, restEndTime |-> restEndTime ]

SetMach(m) ==
    /\ store' = m.store
    /\ workoutTimer' = m.workoutTimer
    /\ restTimer' = m.restTimer
    /\ workoutLive' = m.workoutLive
    /\ restLive' = m.restLive
    /\ workoutStartTime' = m.workoutStartTime
    /\ restEndTime' = m.restEndTime

\* The state of a freshly loaded page over the same localStorage
FreshPage(st) ==
    [ store |-> st,
      workoutTimer |-> NullH, restTimer |-> NullH,
      workoutLive |-> 0, restLive |-> 0,
      workoutStartTime |-> None, restEndTime |-> None ]

\* clearInterval(handle): stops the interval if it is still running
LiveAfterClear(handle, live) == IF handle = LiveH THEN live - 1 ELSE live

\* stopResting that leaves the rest anchor in the persisted session
stopResting_keepsAnchor(m) ==
    LET m1 == IF m.restTimer # NullH
              THEN [m EXCEPT !.restLive = LiveAfterClear(m.restTimer, m.restLive),
                             !.restTimer = NullH]
              ELSE m
        m2 == IF getActiveWorkout(m1.store) # <<>>
              THEN [m1 EXCEPT !.store = saveActiveWorkout(
                        [m1.store[1] EXCEPT !.isResting = FALSE])]
              ELSE m1
    IN  [m2 EXCEPT !.restEndTime = None]

\* stopResting()
stopResting(m) ==
    LET m1 == IF m.restTimer # NullH
              THEN [m EXCEPT !.restLive = LiveAfterClear(m.restTimer, m.restLive),
                             !.restTimer = NullH]
              ELSE m
        m2 == IF getActiveWorkout(m1.store) # <<>>
              THEN [m1 EXCEPT !.store = saveActiveWorkout(
                        [m1.store[1] EXCEPT !.isResting = FALSE,
                                            !.restStartTime = None,
                                            !.restDuration = None])]
              ELSE m1
    IN  [m2 EXCEPT !.restEndTime = None]

\* updateRestDisplay, the callback of the rest countdown, at time t
updateRestDisplay(m, t) ==
    IF ~Truthy(m.restEndTime)
    THEN m
    ELSE LET remaining == Max(0, (m.restEndTime - t) \div MsPerSecond)
         IN  IF remaining = 0 THEN stopResting(m) ELSE m

\* startRestTimer that arms the new interval without clearing the running one
startRestTimer_noClear(m, seconds, t) ==
    LET m1 == [m EXCEPT !.restEndTime = t + seconds * MsPerSecond]
        m3 == updateRestDisplay(m1, t)
    IN  [m3 EXCEPT !.restTimer = LiveH, !.restLive = m3.restLive + 1]

\* startRestTimer(seconds) at time t
startRestTimer(m, seconds, t) ==
    LET m1 == [m EXCEPT !.restEndTime = t + seconds * MsPerSecond]
        m2 == IF m1.restTimer # NullH
              THEN [m1 EXCEPT !.restLive = LiveAfterClear(m1.restTimer, m1.restLive),
                              !.restTimer = ClearedH]
              ELSE m1
        m3 == updateRestDisplay(m2, t)
    IN  [m3 EXCEPT !.restTimer = LiveH, !.restLive = m3.restLive + 1]

\* startResting(seconds) at time t
startResting(m, seconds, t) ==
    IF getActiveWorkout(m.store) = <<>>
    THEN m
    ELSE LET m1 == [m EXCEPT !.store = saveActiveWorkout(
                        [m.store[1] EXCEPT !.isResting = TRUE,
                                           !.restStartTime = t,
                                           !.restDuration = seconds * MsPerSecond])]
         IN  startRestTimer(m1, seconds, t)

\* startWorkoutTimer()
startWorkoutTimer(m) ==
    IF m.workoutStartTime = None
    THEN m
    ELSE [m EXCEPT !.workoutLive = LiveAfterClear(m.workoutTimer, m.workoutLive) + 1,
                   !.workoutTimer = LiveH]

\* stopWorkoutTimer()
stopWorkoutTimer(m) ==
    IF m.workoutTimer # NullH
    THEN [m EXCEPT !.workoutLive = LiveAfterClear(m.workoutTimer, m.workoutLive),
                   !.workoutTimer = NullH]
    ELSE m

----------------------------------------------------------------------------
(* completeSet *)

\* markSetCompleted with a slip: every set of the exercise up to setIndex is
\* stamped, so records completed earlier are rewritten
markSetCompleted_upTo(aw, exerciseIndex, setIndex, weight, t) ==
    [aw EXCEPT !.exercises[exerciseIndex].sets =
        [ j \in DOMAIN @ |->
            IF j <= setIndex
            THEN [@[j] EXCEPT !.completed = TRUE, !.completedAt = t, !.weight = weight]
            ELSE @[j] ]]

\* markSetCompleted that also writes the set's index into its setNumber
markSetCompleted_renumbers(aw, exerciseIndex, setIndex, weight, t) ==
    [aw EXCEPT !.exercises[exerciseIndex].sets[setIndex] =
        [@ EXCEPT !.completed = TRUE, !.completedAt = t, !.weight = weight,
                  !.setNumber = setIndex]]

\* markSetCompleted that stamps the set after setIndex as well
markSetCompleted_andNext(aw, exerciseIndex, setIndex, weight, t) ==
    [aw EXCEPT !.exercises[exerciseIndex].sets =
        [ j \in DOMAIN @ |->
            IF j = setIndex \/ j = setIndex + 1
            THEN [@[j] EXCEPT !.completed = TRUE, !.completedAt = t, !.weight = weight]
            ELSE @[j] ]]

\* lines 312-315: mark the set completed
markSetCompleted(aw, exerciseIndex, setIndex, weight, t) ==
    [aw EXCEPT !.exercises[exerciseIndex].sets[setIndex] =
        [@ EXCEPT !.completed = TRUE, !.completedAt = t, !.weight = weight]]

\* the search for the next set that answers 0 when every set is completed
nextSetIndex_wraps(exercise) ==
    IF \A j \in DOMAIN exercise.sets : exercise.sets[j].completed
    THEN 0
    ELSE FindIndex({ j \in DOMAIN exercise.sets : ~exercise.sets[j].completed })

\* line 325: exercise.sets.findIndex(s => !s.completed)
nextSetIndex(exercise) ==
    FindIndex({ j \in DOMAIN exercise.sets : ~exercise.sets[j].completed })

\* the search for the next exercise started at the first exercise of the
\* program instead of after exerciseIndex
nextExerciseIndex_fromStart(aw, exerciseIndex) ==
    FindIndex({ idx \in DOMAIN aw.exercises :
                  /\ idx # exerciseIndex
                  /\ \E j \in DOMAIN aw.exercises[idx].sets :
                        ~aw.exercises[idx].sets[j].completed })

\* the search for the next exercise that answers the last exercise with an
\* incomplete set instead of the first one
nextExerciseIndex_last(aw, exerciseIndex) ==
    LET later == { idx \in DOMAIN aw.exercises :
                     /\ idx > exerciseIndex
                     /\ \E j \in DOMAIN aw.exercises[idx].sets :
                           ~aw.exercises[idx].sets[j].completed }
    IN  IF later = {} THEN 0 - 1
        ELSE CHOOSE idx \in later : \A other \in later : other <= idx

\* lines 335-337: first exercise after exerciseIndex with an incomplete set
nextExerciseIndex(aw, exerciseIndex) ==
    FindIndex({ idx \in DOMAIN aw.exercises :
                  /\ idx > exerciseIndex
                  /\ \E j \in DOMAIN aw.exercises[idx].sets :
                        ~aw.exercises[idx].sets[j].completed })

\* completeSet that begins a session of a catalog program when it finds none
completeSet_beginsSession(m, cat, exerciseIndex, setIndex, weight, t) ==
    IF getActiveWorkout(m.store) = <<>>
    THEN [m EXCEPT !.store = saveActiveWorkout(
             createActiveWorkout(Programs[CHOOSE p \in DOMAIN cat : TRUE], t))]
    ELSE
    LET activeWorkout == m.store[1]
        found == getWorkoutProgramById(cat, activeWorkout.programId)
    IN  IF found = <<>>
        THEN m
        ELSE
        LET program == found[1]
            aw1 == markSetCompleted(activeWorkout, exerciseIndex, setIndex, weight, t)
            nxt == nextSetIndex(aw1.exercises[exerciseIndex])
        IN  IF nxt # 0 - 1
            THEN LET aw2 == [aw1 EXCEPT !.exercises[exerciseIndex].currentSet = nxt]
                     m1 == startResting(m, program.exercises[exerciseIndex].restTime, t)
                 IN  [m1 EXCEPT !.store = saveActiveWorkout(aw2)]
            ELSE LET nxe == nextExerciseIndex(aw1, exerciseIndex)
                     aw2 == IF nxe # 0 - 1
                            THEN [aw1 EXCEPT !.currentExerciseIndex = nxe]
                            ELSE aw1
                 IN  [m EXCEPT !.store = saveActiveWorkout(aw2)]

\* completeSet(exerciseIndex, setIndex) with the weight input's value, at time t
completeSet(m, cat, exerciseIndex, setIndex, weight, t) ==
    IF getActiveWorkout(m.store) = <<>>
    THEN m
    ELSE
    LET activeWorkout == m.store[1]
        found == getWorkoutProgramById(cat, activeWorkout.programId)
    IN  IF found = <<>>
        THEN m
        ELSE
        LET program == found[1]
            aw1 == markSetCompleted(activeWorkout, exerciseIndex, setIndex, weight, t)
            nxt == nextSetIndex(aw1.exercises[exerciseIndex])
        IN  IF nxt # 0 - 1
            THEN LET aw2 == [aw1 EXCEPT !.exercises[exerciseIndex].currentSet = nxt]
                     m1 == startResting(m, program.exercises[exerciseIndex].restTime, t)
                 IN  [m1 EXCEPT !.store = saveActiveWorkout(aw2)]
            ELSE LET nxe == nextExerciseIndex(aw1, exerciseIndex)
                     aw2 == IF nxe # 0 - 1
                            THEN [aw1 EXCEPT !.currentExerciseIndex = nxe]
                            ELSE aw1
                 IN  [m EXCEPT !.store = saveActiveWorkout(aw2)]

\* lines 317-321 of completeSet: the write to Weight Memory
completeSetWeights(blob, st, cat, exerciseIndex, weight, setItemOk) ==
    IF st = <<>> \/ getWorkoutProgramById(cat, st[1].programId) = <<>>
    THEN blob
    ELSE IF Truthy(weight)
         THEN saveLastUsedWeight(blob,
                  Programs[st[1].programId].exercises[exerciseIndex].id,
                  weight, setItemOk)
         ELSE blob

----------------------------------------------------------------------------
(* resume, pause, reset *)

\* remaining rest in ms, as computed at lines 179-181 and 472-473
restRemaining(aw, t) == aw.restDuration - (t - aw.restStartTime)

\* resumeWorkout that drops a session whose program is gone
resumeWorkout_dropsOrphan(m, activeWorkout, cat, t) ==
    IF getWorkoutProgramById(cat, activeWorkout.programId) = <<>>
    THEN [m EXCEPT !.store = clearActiveWorkout]
    ELSE
    LET m1 == startWorkoutTimer([m EXCEPT !.workoutStartTime = activeWorkout.startTime])
    IN  IF activeWorkout.paused THEN [m EXCEPT !.workoutStartTime = activeWorkout.startTime]
        ELSE m1

\* resumeWorkout that arms the workout clock before it looks the program up
resumeWorkout_armsOrphan(m, activeWorkout, cat, t) ==
    LET m1 == [m EXCEPT !.workoutStartTime = activeWorkout.startTime]
    IN  IF activeWorkout.paused
        THEN m1
        ELSE
        LET m2 == startWorkoutTimer(m1)
        IN  IF getWorkoutProgramById(cat, activeWorkout.programId) = <<>>
            THEN m2
            ELSE
            IF activeWorkout.isResting /\ activeWorkout.restStartTime # None
               /\ Truthy(activeWorkout.restDuration)
            THEN LET remaining == restRemaining(activeWorkout, t)
                 IN  IF remaining > 0
                     THEN startRestTimer(m2, remaining \div MsPerSecond, t)
                     ELSE stopResting(m2)
            ELSE m2

\* resumeWorkout(activeWorkout) at time t
resumeWorkout(m, activeWorkout, cat, t) ==
    IF getWorkoutProgramById(cat, activeWorkout.programId) = <<>>
    THEN m
    ELSE
    LET m1 == [m EXCEPT !.workoutStartTime = activeWorkout.startTime]
    IN  IF activeWorkout.paused
        THEN m1
        ELSE
        LET m2 == startWorkoutTimer(m1)
        IN  IF activeWorkout.isResting /\ activeWorkout.restStartTime # None
               /\ Truthy(activeWorkout.restDuration)
            THEN LET remaining == restRemaining(activeWorkout, t)
                 IN  IF remaining > 0
                     THEN startRestTimer(m2, remaining \div MsPerSecond, t)
                     ELSE stopResting(m2)
            ELSE m2

\* initializeLiveWorkout(), lines 114-118 (the catalog is not empty)
initializeLiveWorkout(m, cat, t) ==
    IF getActiveWorkout(m.store) # <<>>
    THEN resumeWorkout(m, m.store[1], cat, t)
    ELSE m

\* togglePauseWorkout() at time t
togglePauseWorkout(m, t) ==
    IF getActiveWorkout(m.store) = <<>>
    THEN m
    ELSE
    LET activeWorkout == [m.store[1] EXCEPT !.paused = ~@]
        m1 == [m EXCEPT !.store = saveActiveWorkout(activeWorkout)]
    IN  IF activeWorkout.paused
        THEN LET m2 == stopWorkoutTimer(m1)
             IN  IF activeWorkout.isResting THEN stopResting(m2) ELSE m2
        ELSE LET m2 == startWorkoutTimer(m1)
             IN  IF activeWorkout.isResting /\ activeWorkout.restStartTime # None
                    /\ Truthy(activeWorkout.restDuration)
                 THEN LET remaining == Max(0, restRemaining(activeWorkout, t))
                      IN  IF remaining > 0
                          THEN startRestTimer(m2, remaining \div MsPerSecond, t)
                          ELSE m2
                 ELSE m2

\* addRestTime without the check that the session has a restDuration: an
\* absent duration counts as 0
addRestTime_unguarded(m, seconds) ==
    IF ~Truthy(m.restEndTime)
    THEN m
    ELSE
    LET m1 == [m EXCEPT !.restEndTime = @ + seconds * MsPerSecond]
    IN  IF getActiveWorkout(m1.store) # <<>>
        THEN [m1 EXCEPT !.store = saveActiveWorkout(
                 [m1.store[1] EXCEPT !.restDuration =
                     (IF @ = None THEN 0 ELSE @) + seconds * MsPerSecond])]
        ELSE m1

\* addRestTime(seconds)
addRestTime(m, seconds) ==
    IF ~Truthy(m.restEndTime)
    THEN m
    ELSE
    LET m1 == [m EXCEPT !.restEndTime = @ + seconds * MsPerSecond]
    IN  IF getActiveWorkout(m1.store) # <<>> /\ Truthy(m1.store[1].restDuration)
        THEN [m1 EXCEPT !.store = saveActiveWorkout(
                 [m1.store[1] EXCEPT !.restDuration = @ + seconds * MsPerSecond])]
        ELSE m1

\* startWorkout that keeps a session it finds in the store
startWorkout_keepsSession(m, cat, programName, t) ==
    LET found == getWorkoutProgramById(cat, programName)
    IN  IF found = <<>>
        THEN m
        ELSE LET activeWorkout == IF getActiveWorkout(m.store) # <<>>
                                  THEN m.store[1]
                                  ELSE createActiveWorkout(found[1], t)
                 m1 == [m EXCEPT !.store = saveActiveWorkout(activeWorkout),
                                 !.workoutStartTime = activeWorkout.startTime]
             IN  startWorkoutTimer(m1)

\* startWorkout that falls back to a program of the catalog when the one
\* asked for is not there
startWorkout_fallsBack(m, cat, programName, t) ==
    LET found == IF programName \in DOMAIN cat
                 THEN getWorkoutProgramById(cat, programName)
                 ELSE getWorkoutProgramById(cat, CHOOSE p \in DOMAIN cat : TRUE)
    IN  IF found = <<>>
        THEN m
        ELSE LET activeWorkout == createActiveWorkout(found[1], t)
                 m1 == [m EXCEPT !.store = saveActiveWorkout(activeWorkout),
                                 !.workoutStartTime = activeWorkout.startTime]
             IN  startWorkoutTimer(m1)

\* startWorkout(programName) at time t
startWorkout(m, cat, programName, t) ==
    LET found == getWorkoutProgramById(cat, programName)
    IN  IF found = <<>>
        THEN m
        ELSE LET activeWorkout == createActiveWorkout(found[1], t)
                 m1 == [m EXCEPT !.store = saveActiveWorkout(activeWorkout),
                                 !.workoutStartTime = activeWorkout.startTime]
             IN  startWorkoutTimer(m1)

\* resetWorkout that forgets the rest end-time but leaves the countdown running
resetWorkout_keepsRest(m, cat, t) ==
    IF getActiveWorkout(m.store) = <<>>
    THEN m
    ELSE
    LET found == getWorkoutProgramById(cat, m.store[1].programId)
    IN  IF found = <<>>
        THEN m
        ELSE LET m1 == stopWorkoutTimer(m)
                 m2 == [m1 EXCEPT !.restEndTime = None]
                 freshWorkout == createActiveWorkout(found[1], t)
                 m3 == [m2 EXCEPT !.store = saveActiveWorkout(freshWorkout),
                                  !.workoutStartTime = freshWorkout.startTime]
             IN  startWorkoutTimer(m3)

\* resetWorkout() once the confirmation was given, at time t
resetWorkout(m, cat, t) ==
    IF getActiveWorkout(m.store) = <<>>
    THEN m
    ELSE
    LET found == getWorkoutProgramById(cat, m.store[1].programId)
    IN  IF found = <<>>
        THEN m
        ELSE LET m1 == stopResting(stopWorkoutTimer(m))
                 m2 == [m1 EXCEPT !.restEndTime = None]
                 freshWorkout == createActiveWorkout(found[1], t)
                 m3 == [m2 EXCEPT !.store = saveActiveWorkout(freshWorkout),
                                  !.workoutStartTime = freshWorkout.startTime]
             IN  startWorkoutTimer(m3)

----------------------------------------------------------------------------
(* finishWorkout *)

SetMin(S) == CHOOSE x \in S : \A y \in S : x <= y
SetMax(S) == CHOOSE x \in S : \A y \in S : x >= y

\* calculateExerciseElapsedMs that gives zero for an exercise with no
\* completed set
calculateExerciseElapsedMs_zeroWhenNone(sets) ==
    LET completedTimestamps ==
            { sets[j].completedAt :
                j \in { k \in DOMAIN sets :
                          sets[k].completed /\ sets[k].completedAt # None } }
    IN  IF completedTimestamps = {}
        THEN 0
        ELSE Max(0, SetMax(completedTimestamps) - SetMin(completedTimestamps))

\* calculateExerciseElapsedMs(sets)
calculateExerciseElapsedMs(sets) ==
    LET completedTimestamps ==
            { sets[j].completedAt :
                j \in { k \in DOMAIN sets :
                          sets[k].completed /\ sets[k].completedAt # None } }
    IN  IF completedTimestamps = {}
        THEN None
        ELSE Max(0, SetMax(completedTimestamps) - SetMin(completedTimestamps))

\* the duration rounded to the nearest minute
durationMinutes_rounded(startTime, endTime) ==
    (endTime - startTime + MsPerMinute \div 2) \div MsPerMinute

\* lines 493-495: whole minutes from the session's start to endTime
durationMinutes(startTime, endTime) == (endTime - startTime) \div MsPerMinute

\* line 497: number of completed sets of the session
completedSets(aw) ==
    Cardinality({ ij \in SetIds(aw) : aw.exercises[ij[1]].sets[ij[2]].completed })

\* line 498: number of sets of the session
totalSets(aw) == Cardinality(SetIds(aw))

\* the payload with the display name the catalog has now
completionRecord_catalogName(aw, t) ==
        [ date |-> aw.startTime \div (24 * 60 * MsPerMinute),
          type |-> "strength",
          durationMinutes |-> durationMinutes(aw.startTime, t),
          programName |-> IF aw.programId \in DOMAIN catalog
                          THEN catalog[aw.programId]
                          ELSE aw.programName,
          completedSets |-> completedSets(aw),
          totalSets |-> totalSets(aw),
          exercises |->
            [ i \in DOMAIN aw.exercises |->
                [ exerciseId |-> aw.exercises[i].exerciseId,
                  elapsedMs |-> calculateExerciseElapsedMs(aw.exercises[i].sets),
                  sets |-> [ j \in DOMAIN aw.exercises[i].sets |->
                    [ setNumber |-> aw.exercises[i].sets[j].setNumber,
                      weight |-> aw.exercises[i].sets[j].weight,
                      completed |-> aw.exercises[i].sets[j].completed,
                      completedAt |-> aw.exercises[i].sets[j].completedAt ] ] ] ] ]

\* lines 492-531: the payload handed to addWorkout, built at time t
completionRecord(aw, t) ==
        [ date |-> aw.startTime \div (24 * 60 * MsPerMinute),
          type |-> "strength",
          durationMinutes |-> durationMinutes(aw.startTime, t),
          programName |-> aw.programName,
          completedSets |-> completedSets(aw),
          totalSets |-> totalSets(aw),
          exercises |->
            [ i \in DOMAIN aw.exercises |->
                [ exerciseId |-> aw.exercises[i].exerciseId,
                  elapsedMs |-> calculateExerciseElapsedMs(aw.exercises[i].sets),
                  sets |-> [ j \in DOMAIN aw.exercises[i].sets |->
                    [ setNumber |-> aw.exercises[i].sets[j].setNumber,
                      weight |-> aw.exercises[i].sets[j].weight,
                      completed |-> aw.exercises[i].sets[j].completed,
                      completedAt |-> aw.exercises[i].sets[j].completedAt ] ] ] ] ]

\* What is kept of a record while its save is in flight: the fields the
\* continuation of finishWorkout reads (line 540) and, per set, whether the
\* record reports it completed
recordSummary(r) ==
    [ date |-> r.date,
      programName |-> r.programName,
      durationMinutes |-> r.durationMinutes,
      completedSets |-> r.completedSets,
      totalSets |-> r.totalSets,
      completed |-> [ i \in DOMAIN r.exercises |->
                        [ j \in DOMAIN r.exercises[i].sets |->
                            r.exercises[i].sets[j].completed ] ] ]

\* the clean-up without the call of stopResting
finishCleanup_keepsRest(m) ==
    LET m1 == stopWorkoutTimer(m)
    IN  [m1 EXCEPT !.store = clearActiveWorkout, !.workoutStartTime = None]

\* lines 533-537: the clean-up after the save resolved
finishCleanup(m) ==
    LET m1 == stopResting(stopWorkoutTimer(m))
    IN  [m1 EXCEPT !.store = clearActiveWorkout, !.workoutStartTime = None]

\* the clean-up placed where it runs whether or not the save threw
finishAfterSave_always(m, saveOk) == finishCleanup(m)

\* lines 524-537: what follows `await addWorkout(...)'; when the save throws,
\* finishWorkout rejects there and the clean-up is not reached
finishAfterSave(m, saveOk) == IF saveOk THEN finishCleanup(m) ELSE m

----------------------------------------------------------------------------
(* Actions *)

TimeLimit == SetMax(InitialTimes) + MaxTicks * SetMax(TimeSteps)

InitPage(ids, blobs) ==
    /\ now \in InitialTimes
    /\ catalog = CatalogOf(ids)
    /\ store = <<>>
    /\ weightBlob \in blobs
    /\ workoutTimer = NullH
    /\ restTimer = NullH
    /\ workoutLive = 0
    /\ restLive = 0
    /\ workoutStartTime = None
    /\ restEndTime = None
    /\ inflight = <<>>

InitCatalog(ids) == InitPage(ids, {BlobAbsent})

\* the page's state equals the record m
MachIs(m) ==
    /\ store = m.store
    /\ workoutTimer = m.workoutTimer
    /\ restTimer = m.restTimer
    /\ workoutLive = m.workoutLive
    /\ restLive = m.restLive
    /\ workoutStartTime = m.workoutStartTime
    /\ restEndTime = m.restEndTime

\* the session as startResting persists it (line 355) for the first exercise
\* of a program, in a session started at time t
StoredByStartResting(programId, isPaused, t) ==
    LET aw == [createActiveWorkout(Programs[programId], t) EXCEPT !.paused = isPaused]
    IN  startResting(FreshPage(saveActiveWorkout(aw)),
                     Programs[programId].exercises[0].restTime, t).store

\* A page loaded over a store that holds what startResting wrote: the page
\* that wrote it ended, or another page over the same localStorage was
\* loaded, before completeSet's own save (line 344)
InitResume ==
    /\ now \in InitialTimes
    /\ catalog = CatalogOf(InstalledPrograms)
    /\ weightBlob = BlobAbsent
    /\ inflight = <<>>
    /\ \E isPaused \in BOOLEAN :
            MachIs(initializeLiveWorkout(
                FreshPage(StoredByStartResting("push", isPaused, now)), catalog, now))

Init == InitCatalog(InstalledPrograms)

\* the wall clock advances
Advance ==
    /\ \E d \in TimeSteps : now + d <= TimeLimit /\ now' = now + d
    /\ UNCHANGED << catalog, store, weightBlob, workoutTimer, restTimer,
                    workoutLive, restLive, workoutStartTime, restEndTime, inflight >>

\* the workout goes on: the wall clock advances by the length of a session
Elapse ==
    /\ now <= TimeLimit
    /\ \E d \in SessionLengths : now' = now + d
    /\ UNCHANGED << catalog, store, weightBlob, workoutTimer, restTimer,
                    workoutLive, restLive, workoutStartTime, restEndTime, inflight >>

\* the session is left in the store until the next day
Overnight ==
    /\ now <= TimeLimit
    /\ now' = now + 24 * 60 * MsPerMinute
    /\ UNCHANGED << catalog, store, weightBlob, workoutTimer, restTimer,
                    workoutLive, restLive, workoutStartTime, restEndTime, inflight >>

\* deleteWorkoutProgram(id); the catalog is never emptied, so that
\* initializeLiveWorkout does not seed the default programs again
DeleteProgram ==
    /\ \E p \in DOMAIN catalog :
            /\ DOMAIN catalog \ {p} # {}
            /\ catalog' = [q \in DOMAIN catalog \ {p} |-> catalog[q]]
    /\ UNCHANGED << now, store, weightBlob, workoutTimer, restTimer,
                    workoutLive, restLive, workoutStartTime, restEndTime, inflight >>

\* updateWorkoutProgram(id, {displayName}): a program of the catalog is renamed
RenameProgram ==
    /\ \E p \in DOMAIN catalog, name \in EditedNames :
            catalog' = [catalog EXCEPT ![p] = name]
    /\ UNCHANGED << now, store, weightBlob, workoutTimer, restTimer,
                    workoutLive, restLive, workoutStartTime, restEndTime, inflight >>

\* click on a start-program button
StartWorkout ==
    /\ \E programName \in StartButtons :
            SetMach(startWorkout(Mach, catalog, programName, now))
    /\ UNCHANGED << now, catalog, weightBlob, inflight >>

\* click on a complete-set button; a button exists for every set that is
\* not completed (renderSet), or the call finds no session
CompleteSetClick(weight, setItemOk) ==
    \E ij \in IF store = <<>>
              THEN {<<0, 0>>}
              ELSE { x \in SetIds(store[1]) :
                     ~store[1].exercises[x[1]].sets[x[2]].completed } :
        /\ SetMach(completeSet(Mach, catalog, ij[1], ij[2], weight, now))
        /\ weightBlob' = completeSetWeights(weightBlob, store, catalog,
                                            ij[1], weight, setItemOk)

\* the click with a number in the weight input and a storage that accepts
\* the write
CompleteSet ==
    /\ \E weight \in WeightInputs : CompleteSetClick(weight, TRUE)
    /\ UNCHANGED << now, catalog, inflight >>

\* click on the one complete-set button that renderSet leaves enabled: that
\* of the current set of the current exercise, while it is not completed
CompleteActiveSet ==
    /\ store # <<>>
    /\ getWorkoutProgramById(catalog, store[1].programId) # <<>>
    /\ LET exerciseIndex == store[1].currentExerciseIndex
           setIndex == store[1].exercises[exerciseIndex].currentSet
       IN  /\ ~store[1].exercises[exerciseIndex].sets[setIndex].completed
           /\ \E weight \in WeightInputs :
                /\ SetMach(completeSet(Mach, catalog, exerciseIndex, setIndex,
                                       weight, now))
                /\ weightBlob' = completeSetWeights(weightBlob, store, catalog,
                                                    exerciseIndex, weight, TRUE)
    /\ UNCHANGED << now, catalog, inflight >>

\* the click with any weight input, on a storage that may refuse the write
CompleteSetWeighed ==
    /\ \E weight \in MemoryWeightInputs, setItemOk \in BOOLEAN :
            CompleteSetClick(weight, setItemOk)
    /\ UNCHANGED << now, catalog, inflight >>

\* a callback of a live rest-countdown interval
RestTick ==
    /\ restLive > 0
    /\ SetMach(updateRestDisplay(Mach, now))
    /\ UNCHANGED << now, catalog, weightBlob, inflight >>

\* a callback of a live workout-duration interval (updates the display only)
WorkoutTick ==
    /\ workoutLive > 0
    /\ UNCHANGED vars

\* click on the skip-rest button: skipRest()
SkipRest ==
    /\ SetMach(stopResting(Mach))
    /\ UNCHANGED << now, catalog, weightBlob, inflight >>

\* click on the add-rest-time button
AddRestTime ==
    /\ \E seconds \in ExtendSeconds :
            /\ restEndTime = None
                \/ restEndTime - now < MaxExtends * seconds * MsPerSecond
            /\ SetMach(addRestTime(Mach, seconds))
    /\ UNCHANGED << now, catalog, weightBlob, inflight >>

\* click on the pause button
TogglePause ==
    /\ SetMach(togglePauseWorkout(Mach, now))
    /\ UNCHANGED << now, catalog, weightBlob, inflight >>

\* click on the reset button; confirm() may be declined
ResetWorkout ==
    /\ \E confirmed \in BOOLEAN :
            SetMach(IF confirmed THEN resetWorkout(Mach, catalog, now) ELSE Mach)
    /\ UNCHANGED << now, catalog, weightBlob, inflight >>

\* click on the end button: finishWorkout() up to `await addWorkout(...)',
\* on a page where at most `pending' calls wait for their save at one time
FinishClick(pending) ==
    \E confirmed \in BOOLEAN :
        IF /\ store # <<>>
           /\ getWorkoutProgramById(catalog, store[1].programId) # <<>>
           /\ confirmed
        THEN /\ Len(inflight) < pending
             /\ inflight' = Append(inflight,
                    recordSummary(completionRecord(store[1], now)))
        ELSE inflight' = inflight

FinishBegin ==
    /\ FinishClick(MaxInFlight)
    /\ UNCHANGED << now, catalog, store, weightBlob, workoutTimer, restTimer,
                    workoutLive, restLive, workoutStartTime, restEndTime >>

\* the end button clicked again while the save of an earlier click is awaited
FinishBeginTwice ==
    /\ FinishClick(MaxPending)
    /\ UNCHANGED << now, catalog, store, weightBlob, workoutTimer, restTimer,
                    workoutLive, restLive, workoutStartTime, restEndTime >>

RemoveAt(s, i) == [k \in 1..(Len(s) - 1) |-> IF k < i THEN s[k] ELSE s[k + 1]]

\* addWorkout resolved: clean-up, then window.location.reload()
FinishSaved ==
    /\ \E i \in DOMAIN inflight :
            SetMach(initializeLiveWorkout(
                FreshPage(finishAfterSave(Mach, TRUE).store), catalog, now))
    /\ inflight' = <<>>
    /\ UNCHANGED << now, catalog, weightBlob >>

\* addWorkout threw: finishWorkout's promise rejects at the await
FinishFailed ==
    /\ \E i \in DOMAIN inflight : inflight' = RemoveAt(inflight, i)
    /\ SetMach(finishAfterSave(Mach, FALSE))
    /\ UNCHANGED << now, catalog, weightBlob >>

\* the page is unloaded and loaded again: beforeunload, then
\* initializeLiveWorkout on a fresh page
PageReload ==
    /\ SetMach(initializeLiveWorkout(FreshPage(store), catalog, now))
    /\ inflight' = <<>>
    /\ UNCHANGED << now, catalog, weightBlob >>

\* the events of the session engine and its timers
NextEngine ==
    \/ Advance
    \/ StartWorkout
    \/ CompleteSet
    \/ RestTick
    \/ WorkoutTick
    \/ SkipRest
    \/ AddRestTime
    \/ TogglePause
    \/ ResetWorkout
    \/ PageReload

Next ==
    \/ NextEngine
    \/ FinishBegin
    \/ FinishSaved
    \/ FinishFailed

Spec == Init /\ [][Next]_vars

\* The same page while programs are also deleted from the catalog or renamed
NextCatalog ==
    \/ Advance
    \/ StartWorkout
    \/ CompleteSet
    \/ RestTick
    \/ SkipRest
    \/ TogglePause
    \/ ResetWorkout
    \/ PageReload
    \/ FinishBegin
    \/ FinishSaved
    \/ FinishFailed
    \/ DeleteProgram
    \/ RenameProgram

SpecCatalog == InitCatalog({"legs", "custom"}) /\ [][NextCatalog]_vars

\* Set completion on a program of four exercises, where the only rest
\* period is one of 0 seconds (after the first set of the last exercise)
NextPull ==
    \/ Advance
    \/ StartWorkout
    \/ CompleteSet
    \/ RestTick
    \/ WorkoutTick
    \/ SkipRest
    \/ TogglePause
    \/ ResetWorkout
    \/ PageReload

SpecPull == InitCatalog({"pull"}) /\ [][NextPull]_vars

\* The page over a persisted session that is resting
NextResume ==
    \/ Advance
    \/ CompleteSet
    \/ RestTick
    \/ WorkoutTick
    \/ SkipRest
    \/ AddRestTime
    \/ TogglePause
    \/ PageReload

SpecResume == InitResume /\ [][NextResume]_vars

\* a workout of realistic length, finished
NextFinish ==
    \/ Advance
    \/ Elapse
    \/ StartWorkout
    \/ CompleteSet
    \/ RestTick
    \/ FinishBegin
    \/ FinishSaved
    \/ FinishFailed

SpecFinish == InitCatalog(InstalledPrograms) /\ [][NextFinish]_vars

\* a workout finished after its program was renamed, or on a later day
NextHistory ==
    \/ Overnight
    \/ RenameProgram
    \/ StartWorkout
    \/ CompleteSet
    \/ TogglePause
    \/ FinishBegin
    \/ FinishSaved
    \/ FinishFailed

SpecHistory == InitCatalog(InstalledPrograms) /\ [][NextHistory]_vars

\* The page over a persisted session, which no step replaces, with an end
\* button that is clicked again while a save is awaited
NextEnd ==
    \/ Advance
    \/ CompleteSet
    \/ TogglePause
    \/ FinishBeginTwice
    \/ FinishSaved
    \/ FinishFailed

SpecEnd == InitResume /\ [][NextEnd]_vars

\* The page used through its enabled buttons only
NextContract ==
    \/ Advance
    \/ StartWorkout
    \/ CompleteActiveSet
    \/ RestTick
    \/ SkipRest
    \/ AddRestTime
    \/ TogglePause
    \/ PageReload

SpecContract == InitCatalog({"push", "pull"}) /\ [][NextContract]_vars

\* addRestTime invoked only finitely often: not after the clock has gone
\* beyond TimeLimit
AddRestTimeEarly ==
    /\ now <= TimeLimit
    /\ AddRestTime

\* The page over a persisted session that is resting, where the callbacks of
\* a live countdown keep coming and time keeps passing
NextRest ==
    \/ Advance
    \/ Overnight
    \/ StartWorkout
    \/ RestTick
    \/ AddRestTimeEarly
    \/ SkipRest
    \/ PageReload

SpecRest ==
    /\ InitResume
    /\ [][NextRest]_vars
    /\ WF_vars(RestTick)
    /\ WF_vars(Advance)
    /\ WF_vars(Overnight)

\* Weight Memory under every weight input, with a stored value that may be
\* unreadable and writes that may fail
NextWeights ==
    \/ Advance
    \/ StartWorkout
    \/ CompleteSetWeighed
    \/ ResetWorkout
    \/ PageReload

SpecWeights ==
    InitPage({"legs"}, {BlobAbsent, BlobCorrupt}) /\ [][NextWeights]_vars

----------------------------------------------------------------------------
(* Properties *)

HasSession == store # <<>>

\* the step keeps a session of the same program in the store
SameProgram ==
    /\ store # <<>>
    /\ store' # <<>>
    /\ store'[1].programId = store[1].programId

\* the step completes the set at position ij of the stored session
NewlyCompleted(ij) ==
    /\ SameProgram
    /\ ~store[1].exercises[ij[1]].sets[ij[2]].completed
    /\ store'[1].exercises[ij[1]].sets[ij[2]].completed

\* lowest index of a set of ex that is not completed; -1 if there is none
LowestIncomplete(ex) ==
    IF \E j \in DOMAIN ex.sets : ~ex.sets[j].completed
    THEN SetMin({ j \in DOMAIN ex.sets : ~ex.sets[j].completed })
    ELSE 0 - 1

RestTimeOf(aw, i) == Programs[aw.programId].exercises[i].restTime

\* C1: when completeSet leaves an incomplete set in the same exercise and the
\* exercise's rest interval is R > 0, the persisted session afterwards has the
\* exercise's currentSet at the lowest incomplete set, isResting = true,
\* restStartTime = the time of the call, restDuration = R * 1000, and the
\* rest countdown is armed.
C1_CompleteSetBeginsRest ==
    [][ \A ij \in (IF store = <<>> THEN {} ELSE SetIds(store[1])) :
          ( /\ NewlyCompleted(ij)
            /\ LowestIncomplete(store'[1].exercises[ij[1]]) # 0 - 1
            /\ RestTimeOf(store[1], ij[1]) > 0 )
          => /\ store'[1].exercises[ij[1]].currentSet
                   = LowestIncomplete(store'[1].exercises[ij[1]])
             /\ store'[1].isResting
             /\ store'[1].restStartTime = now
             /\ store'[1].restDuration = RestTimeOf(store[1], ij[1]) * MsPerSecond
             /\ restLive' = 1
      ]_vars

\* the completed sets of the stored session keep completed, completedAt and weight
CompletedSetsKept ==
    \A ij \in (IF store = <<>> THEN {} ELSE SetIds(store[1])) :
        store[1].exercises[ij[1]].sets[ij[2]].completed
        => /\ SameProgram
           /\ store'[1].exercises[ij[1]].sets[ij[2]]
                = store[1].exercises[ij[1]].sets[ij[2]]

\* C2: once a set record is completed, no engine operation on the same session
\* changes its completed, completedAt or weight; only a step that replaces or
\* ends the session (reset, start, the clean-up of finish) does.
C2_CompletedSetsImmutable ==
    [][ \/ CompletedSetsKept
        \/ (inflight # <<>> /\ inflight' = <<>> /\ FinishSaved)
        \/ ResetWorkout
        \/ StartWorkout ]_vars

\* C2 witness: two completed sets with different completion times in a session
\* that was paused afterwards: the earlier record survived later operations
C2_Witness ==
    /\ store # <<>>
    /\ store[1].paused
    /\ \E a \in SetIds(store[1]), b \in SetIds(store[1]) :
          /\ store[1].exercises[a[1]].sets[a[2]].completed
          /\ store[1].exercises[b[1]].sets[b[2]].completed
          /\ store[1].exercises[a[1]].sets[a[2]].completedAt
               < store[1].exercises[b[1]].sets[b[2]].completedAt
          /\ store[1].exercises[a[1]].sets[a[2]].weight = 100

\* C3: currentExerciseIndex never decreases across completeSet calls within
\* one session, whichever exercise the call targets.
C3_ExerciseIndexNeverDecreases ==
    [][ CompleteSet /\ SameProgram
        => store'[1].currentExerciseIndex >= store[1].currentExerciseIndex ]_vars

\* C4: togglePause changes only the paused flag of the persisted session (a
\* rest anchor is kept as it is), and on pausing both timers are disarmed.
C4_PauseOnlyFlipsFlag ==
    [][ TogglePause /\ store # <<>>
        => /\ store' = <<[store[1] EXCEPT !.paused = ~@]>>
           /\ store'[1].paused => workoutLive' = 0 /\ restLive' = 0 ]_vars

\* C5: a rest that is running when the session is un-paused before its end is
\* still a rest of the persisted session afterwards, and the countdown is
\* re-armed with remaining = restDuration - (now - restStartTime).
C5_RestSurvivesPause ==
    [][ ( /\ TogglePause
          /\ store # <<>>
          /\ store[1].paused
          /\ restEndTime # None
          /\ restEndTime > now )
        => /\ store'[1].isResting
           /\ restLive' = 1
           /\ restEndTime' - now
                = store'[1].restDuration - (now - store'[1].restStartTime) ]_vars

\* C6: whenever the persisted session is paused, neither the workout-duration
\* clock nor the rest countdown is armed.
C6_PausedMeansNoTimers ==
    (store # <<>> /\ store[1].paused) => (workoutLive = 0 /\ restLive = 0)

\* C7: in every persisted session, isResting implies restStartTime and
\* restDuration are present, and not isResting implies both are absent.
C7_RestFieldsMatchFlag ==
    store # <<>> =>
        /\ store[1].isResting
             => (store[1].restStartTime # None /\ store[1].restDuration # None)
        /\ ~store[1].isResting
             => (store[1].restStartTime = None /\ store[1].restDuration = None)

\* C7 witness: completeSet has begun a rest (the countdown runs towards an
\* end-time extended by addRestTime) and the session was then paused
C7_Witness ==
    /\ store # <<>>
    /\ store[1].paused
    /\ restLive = 1
    /\ restEndTime # None
    /\ restEndTime > now + 30 * MsPerSecond
    /\ \E ij \in SetIds(store[1]) : store[1].exercises[ij[1]].sets[ij[2]].completed

\* C8: the store goes from holding a session to empty only in the clean-up of
\* a finish whose save succeeded.
C8_OnlyFinishClearsStore ==
    [][ (store # <<>> /\ store' = <<>>) => FinishSaved ]_vars

\* C8 witness: the store is empty again after a session in which a set was
\* completed with a weight, while the session's program is gone from the catalog
C8_Witness ==
    /\ store = <<>>
    /\ weightBlob.kind = "map"
    /\ weightBlob.map["legs-1"] = 100
    /\ "legs" \notin DOMAIN catalog

\* C9: a finish whose save fails leaves the persisted session and the timers
\* exactly as they were.
C9_FailedSaveKeepsSession ==
    [][ FinishFailed
        => /\ store' = store
           /\ store' # <<>>
           /\ workoutLive' = workoutLive /\ workoutTimer' = workoutTimer
           /\ restLive' = restLive /\ restTimer' = restTimer
           /\ restEndTime' = restEndTime
           /\ workoutStartTime' = workoutStartTime ]_vars

\* C9 witness: a save is in flight for a session with a completed set while
\* both timers are armed
C9_Witness ==
    /\ inflight # <<>>
    /\ store # <<>>
    /\ workoutLive = 1
    /\ restLive = 1
    /\ inflight[1].completedSets = 1

\* the record summary r reports every completed set of the session aw
RecordCovers(r, aw) ==
    \A ij \in SetIds(aw) :
        aw.exercises[ij[1]].sets[ij[2]].completed
        => /\ ij[1] \in DOMAIN r.completed
           /\ ij[2] \in DOMAIN r.completed[ij[1]]
           /\ r.completed[ij[1]][ij[2]]

\* C10: finish is atomic: every set completion that is in the store when the
\* clean-up of finish clears it is contained in the record that was saved.
C10_FinishIsAtomic ==
    [][ FinishSaved /\ store # <<>>
        => \A i \in DOMAIN inflight : RecordCovers(inflight[i], store[1]) ]_vars

\* the stored session is one the page can resume: its program is in the catalog
Resumable == store # <<>> /\ store[1].programId \in DOMAIN catalog

\* the stored session with the rest fields as expireRest leaves them
RestCleared(aw) ==
    [aw EXCEPT !.isResting = FALSE, !.restStartTime = None, !.restDuration = None]

\* C11: resuming a persisted session that is not paused and is resting: when
\* restDuration - (now - restStartTime) is positive the session stays resting
\* and the countdown is armed to end after exactly that remaining time; when
\* it is zero or negative the session leaves resting (flag and anchor cleared
\* in the store) and no countdown is armed.
C11_ResumeRearmsOrExpires ==
    [][ ( /\ PageReload
          /\ Resumable
          /\ ~store[1].paused
          /\ store[1].isResting )
        => IF restRemaining(store[1], now) > 0
           THEN /\ store' = store
                /\ restLive' = 1
                /\ restEndTime' = now + restRemaining(store[1], now)
           ELSE /\ store' = <<RestCleared(store[1])>>
                /\ restLive' = 0 ]_vars

\* C12: un-pausing a resting session whose rest has fully elapsed takes the
\* session out of the resting state at once (flag and anchor cleared in the
\* store), as resuming it would.
C12_UnpauseExpiresElapsedRest ==
    [][ ( /\ TogglePause
          /\ store # <<>>
          /\ store[1].paused
          /\ store[1].isResting
          /\ restRemaining(store[1], now) <= 0 )
        => /\ store' = <<RestCleared([store[1] EXCEPT !.paused = FALSE])>>
           /\ restLive' = 0 ]_vars

\* C13: at most one workout-duration interval and at most one rest-countdown
\* interval are alive in every reachable state.
C13_TimersSingleFlight == workoutLive <= 1 /\ restLive <= 1

\* C13 witness: a second session was started while the page's timers were
\* running and a rest was begun in it: both kinds of timer were armed again
C13_Witness ==
    /\ store # <<>>
    /\ store[1].startTime > SetMin(InitialTimes)
    /\ workoutLive = 1
    /\ restLive = 1
    /\ restEndTime # None
    /\ restEndTime >= store[1].startTime + MsPerSecond
    /\ \E ij \in SetIds(store[1]) :
          /\ store[1].exercises[ij[1]].sets[ij[2]].completed
          /\ store[1].exercises[ij[1]].sets[ij[2]].completedAt >= store[1].startTime

\* C14: a countdown stops when it has expired: whenever no rest end-time is
\* tracked (no rest was begun yet, or the last rest expired or was skipped),
\* no rest-countdown interval is alive; this includes a countdown armed with
\* 0 seconds.
C14_ExpiredCountdownStops == restEndTime = None => restLive = 0

\* the countdown's callback finds that the countdown has reached zero
CountdownAtZero ==
    /\ restEndTime # None
    /\ Max(0, (restEndTime - now) \div MsPerSecond) = 0

\* C15: after expireRest, invoked by the countdown reaching zero or by
\* skipRest, on an active session: the persisted session is not resting, has
\* no restStartTime and no restDuration, is otherwise unchanged, and the rest
\* countdown is disarmed.
C15_ExpireRestClearsRest ==
    [][ ( /\ SkipRest \/ (RestTick /\ CountdownAtZero)
          /\ store # <<>> )
        => /\ store' = <<RestCleared(store[1])>>
           /\ restLive' = 0
           /\ restTimer' = NullH
           /\ restEndTime' = None ]_vars

\* C15 witness: a session that was persisted as resting has left the resting
\* state while running, and its countdown is gone
C15_Witness ==
    /\ store # <<>>
    /\ ~store[1].paused
    /\ ~store[1].isResting
    /\ store[1].restStartTime = None
    /\ store[1].restDuration = None
    /\ workoutLive = 1
    /\ restLive = 0
    /\ restEndTime = None
    /\ now > store[1].startTime

\* C16: extendRest(s) on a resting session adds s * 1000 to the persisted
\* restDuration and to the tracked rest end-time, which stays equal to
\* restStartTime + restDuration, and changes nothing else; on a session that
\* is not resting it changes neither the persisted session nor the end-time.
C16_ExtendRest ==
    [][ AddRestTime /\ store # <<>>
        => IF store[1].isResting
           THEN \E seconds \in ExtendSeconds :
                   /\ store' = <<[store[1] EXCEPT
                                    !.restDuration = @ + seconds * MsPerSecond]>>
                   /\ restEndTime # None
                   /\ restEndTime' = restEndTime + seconds * MsPerSecond
                   /\ restEndTime' = store'[1].restStartTime + store'[1].restDuration
                   /\ restLive' = restLive /\ workoutLive' = workoutLive
           ELSE /\ store' = store
                /\ restEndTime' = restEndTime ]_vars

\* C17: after a successful finish the store holds no session and neither the
\* workout-duration timer nor the rest countdown is alive, both when the
\* clean-up of finishWorkout has run and on the page reloaded after it.
C17_FinishLeavesNothing ==
    [][ (inflight # <<>> /\ inflight' = <<>> /\ FinishSaved)
        => /\ finishAfterSave(Mach, TRUE).store = <<>>
           /\ finishAfterSave(Mach, TRUE).workoutLive = 0
           /\ finishAfterSave(Mach, TRUE).restLive = 0
           /\ store' = <<>>
           /\ workoutLive' = 0
           /\ restLive' = 0 ]_vars

\* C17 witness: no session and no timer after a finish of a session in which
\* a set had been completed
C17_Witness ==
    /\ store = <<>>
    /\ inflight = <<>>
    /\ workoutLive = 0
    /\ restLive = 0
    /\ weightBlob.kind = "map"
    /\ weightBlob.map["push-1"] = 100

\* C18: a confirmed reset leaves in the store a fresh session of the same
\* program, equal to createActiveWorkout(program) at the time of the reset,
\* with no rest countdown alive and exactly the workout-duration clock armed.
\* (A declined reset changes nothing.)
C18_ResetStartsAfresh ==
    [][ ResetWorkout /\ Resumable
        => /\ store' = <<createActiveWorkout(Programs[store[1].programId], now)>>
           /\ workoutStartTime' = now
           /\ workoutLive' = 1
           /\ restLive' = 0
           /\ restEndTime' = None ]_vars

\* C18 witness: a fresh session, begun later than the first page load, with
\* only the workout clock armed, after a set had been completed with a weight
C18_Witness ==
    /\ store # <<>>
    /\ store[1].startTime > SetMin(InitialTimes)
    /\ store = <<createActiveWorkout(Programs[store[1].programId], store[1].startTime)>>
    /\ workoutLive = 1
    /\ restLive = 0
    /\ restEndTime = None
    /\ weightBlob.kind = "map"

\* C19: with no session in the store, completeSet, togglePause, skipRest, a
\* callback of the rest countdown, addRestTime and finish leave the store
\* empty and produce no completion record.
C19_NoSessionNoEffect ==
    [][ ( /\ store = <<>>
          /\ \/ CompleteSet \/ TogglePause \/ SkipRest \/ RestTick
             \/ AddRestTime \/ FinishBegin \/ FinishSaved \/ FinishFailed )
        => /\ store' = <<>>
           /\ inflight' = inflight ]_vars

\* C19 witness: the store is empty, no save is in flight and no timer is
\* armed, some time after a session was finished
C19_Witness ==
    /\ store = <<>>
    /\ inflight = <<>>
    /\ restTimer = NullH
    /\ workoutTimer = NullH
    /\ weightBlob.kind = "map"
    /\ now = TimeLimit

\* the exercises after position i of the session aw that have an incomplete set
LaterIncomplete(aw, i) ==
    { idx \in DOMAIN aw.exercises :
        idx > i /\ LowestIncomplete(aw.exercises[idx]) # 0 - 1 }

\* C20: when completeSet completes the last incomplete set of an exercise,
\* currentExerciseIndex becomes the index of the first exercise after that
\* exercise (in program order) that has an incomplete set, and is unchanged
\* when there is none; the session stays in the store, also when every set of
\* every exercise is completed.
C20_AdvanceToNextExercise ==
    [][ \A ij \in (IF store = <<>> THEN {} ELSE SetIds(store[1])) :
          ( /\ NewlyCompleted(ij)
            /\ LowestIncomplete(store'[1].exercises[ij[1]]) = 0 - 1
            /\ CompleteSet )
          => store'[1].currentExerciseIndex
               = IF LaterIncomplete(store'[1], ij[1]) = {}
                 THEN store[1].currentExerciseIndex
                 ELSE SetMin(LaterIncomplete(store'[1], ij[1])) ]_vars

\* C20 witness: every set of every exercise is completed and the session is
\* still in the store
C20_Witness ==
    /\ store # <<>>
    /\ \A ij \in SetIds(store[1]) : store[1].exercises[ij[1]].sets[ij[2]].completed
    /\ Cardinality(DOMAIN store[1].exercises) > 1

\* C21: when completeSet completes the last incomplete set of an exercise no
\* rest period begins: the persisted isResting, restStartTime and restDuration
\* are as before, and the rest countdown and its end-time are untouched.
C21_LastSetBeginsNoRest ==
    [][ \A ij \in (IF store = <<>> THEN {} ELSE SetIds(store[1])) :
          ( /\ NewlyCompleted(ij)
            /\ LowestIncomplete(store'[1].exercises[ij[1]]) = 0 - 1
            /\ CompleteSet )
          => /\ store'[1].isResting = store[1].isResting
             /\ store'[1].restStartTime = store[1].restStartTime
             /\ store'[1].restDuration = store[1].restDuration
             /\ restEndTime' = restEndTime
             /\ restTimer' = restTimer
             /\ restLive' = restLive ]_vars

\* C21 witness: every set of the first exercise is completed, the last of
\* them later than the first, while the countdown begun after the first set
\* is still running towards its end-time
C21_Witness ==
    /\ store # <<>>
    /\ \A j \in DOMAIN store[1].exercises[0].sets :
          store[1].exercises[0].sets[j].completed
    /\ store[1].exercises[0].sets[1].completedAt
          > store[1].exercises[0].sets[0].completedAt
    /\ restLive = 1
    /\ restEndTime = store[1].exercises[0].sets[0].completedAt + MsPerSecond

\* the programs that a catalog can hold: each program under its original
\* or an edited display name
AllPrograms ==
    { [Programs[p] EXCEPT !.displayName = name] :
        p \in ProgramIds,
        name \in { Programs[q].displayName : q \in ProgramIds } \cup EditedNames }

\* the session s is a fresh session of the program P
FreshSessionOf(s, P) ==
    /\ s.programId = P.id
    /\ s.programName = P.displayName
    /\ DOMAIN s.exercises = DOMAIN P.exercises
    /\ \A i \in DOMAIN P.exercises :
          /\ s.exercises[i].exerciseId = P.exercises[i].id
          /\ s.exercises[i].currentSet = 0
          /\ DOMAIN s.exercises[i].sets = 0..(P.exercises[i].sets - 1)
          /\ Cardinality(DOMAIN s.exercises[i].sets) = P.exercises[i].sets
          /\ \A j \in DOMAIN s.exercises[i].sets :
                /\ s.exercises[i].sets[j].setNumber = j + 1
                /\ ~s.exercises[i].sets[j].completed
    /\ s.currentExerciseIndex = 0
    /\ ~s.isResting
    /\ s.restStartTime = None
    /\ s.restDuration = None
    /\ ~s.paused

\* C22: for every program P, createSession(P) has one exercise entry per
\* exercise of P in the same order, each with exactly targetSets set records
\* numbered 1..N and not completed, current set 0, current exercise 0, not
\* resting (no rest anchor), not paused, and programId and display name of P.
C22_CreateSessionShape ==
    \A P \in AllPrograms :
        /\ FreshSessionOf(createActiveWorkout(P, now), P)
        /\ createActiveWorkout(P, now).startTime = now

\* C22 witness: the store holds a session as created from a program that
\* had been renamed in the catalog
C22_Witness ==
    /\ store # <<>>
    /\ store[1].programName \in EditedNames
    /\ \E P \in AllPrograms : FreshSessionOf(store[1], P)
    /\ workoutLive = 1

\* the exercise entries of a session with, per entry, its exerciseId and the
\* setNumber of each of its set records
SessionShape(aw) ==
    [ i \in DOMAIN aw.exercises |->
        [ exerciseId |-> aw.exercises[i].exerciseId,
          setNumbers |-> [ j \in DOMAIN aw.exercises[i].sets |->
                             aw.exercises[i].sets[j].setNumber ] ] ]

\* C23: during the whole life of a session the number of exercise entries,
\* the number of set records of each entry and every setNumber are as
\* createSession fixed them for the session's program.
C23_ShapeFixedAtCreation ==
    store # <<>> =>
        SessionShape(store[1])
          = SessionShape(createActiveWorkout(Programs[store[1].programId],
                                             store[1].startTime))

\* C23 witness: a paused session, all of whose sets were completed, while a
\* rest countdown is alive
C23_Witness ==
    /\ store # <<>>
    /\ store[1].paused
    /\ completedSets(store[1]) = totalSets(store[1])
    /\ restLive = 1

\* C24: a successful startSession leaves exactly one session in the store,
\* equal to createSession of the looked-up program whatever was stored
\* before, with the workout-duration clock armed; and the store never holds
\* more than one session.
C24_StartReplacesSession ==
    /\ [](Len(store) <= 1)
    /\ [][ StartWorkout
           => \E p \in StartButtons \cap DOMAIN catalog :
                 /\ store' = <<createActiveWorkout(
                                  getWorkoutProgramById(catalog, p)[1], now)>>
                 /\ workoutStartTime' = now
                 /\ workoutLive' = 1 ]_vars

\* C24 witness: a fresh session, started later than the first page load, in
\* the store while the rest countdown of the session it replaced is alive
C24_Witness ==
    /\ store # <<>>
    /\ store[1].startTime > SetMin(InitialTimes)
    /\ \E P \in AllPrograms : FreshSessionOf(store[1], P)
    /\ workoutLive = 1
    /\ restLive = 1
    /\ restEndTime # None
    /\ restEndTime < store[1].startTime + MsPerSecond

\* C25: startSession for a program that is not in the catalog has no side
\* effect: the store, a session in it included, and the timers are as they
\* were.
C25_StartUnknownProgram ==
    \A programName \in StartButtons \ DOMAIN catalog :
        startWorkout(Mach, catalog, programName, now) = Mach

\* C25 witness: a session with a completed set is stored and both timers are
\* armed, while some start button names a program that is not in the catalog
C25_Witness ==
    /\ StartButtons \ DOMAIN catalog # {}
    /\ store # <<>>
    /\ completedSets(store[1]) > 0
    /\ workoutLive = 1
    /\ restLive = 1

\* the clock advance from t to t + d crosses the end of the rest of session aw
CrossesRestEnd(aw, t, d) ==
    /\ aw.isResting
    /\ aw.restStartTime # None
    /\ Truthy(aw.restDuration)
    /\ restRemaining(aw, t) > 0
    /\ restRemaining(aw, t + d) <= 0

\* C26: resume is idempotent: resuming the stored session twice in a row,
\* with no mutation in between and no clock advance that crosses the end of
\* the rest, leaves the same persisted session after the second resume as
\* after the first.
C26_ResumeIdempotent ==
    \A d \in {0} \cup TimeSteps :
        LET first  == initializeLiveWorkout(FreshPage(store), catalog, now)
            second == initializeLiveWorkout(FreshPage(first.store), catalog, now + d)
        IN  ( /\ first.store # <<>>
              /\ ~CrossesRestEnd(first.store[1], now, d) )
            => second.store = first.store

\* C27: resuming a persisted session whose program is no longer in the
\* catalog is treated as no active session: the persisted session is neither
\* cleared nor modified, and neither the workout-duration clock nor the rest
\* countdown is armed.
C27_ResumeOrphanSession ==
    [][ ( /\ PageReload
          /\ store # <<>>
          /\ store[1].programId \notin DOMAIN catalog )
        => /\ store' = store
           /\ workoutLive' = 0
           /\ workoutTimer' = NullH
           /\ workoutStartTime' = None
           /\ restLive' = 0
           /\ restTimer' = NullH
           /\ restEndTime' = None ]_vars

\* C27 witness: a page loaded over a running (not paused) session with a
\* completed set whose program has been deleted: the session is still in
\* the store and no clock has been armed
C27_Witness ==
    /\ store # <<>>
    /\ store[1].programId \notin DOMAIN catalog
    /\ ~store[1].paused
    /\ completedSets(store[1]) > 0
    /\ workoutTimer = NullH
    /\ workoutLive = 0
    /\ workoutStartTime = None
    /\ restLive = 0

\* the sets of the session that are not completed
IncompleteSets(aw) ==
    { ij \in SetIds(aw) : ~aw.exercises[ij[1]].sets[ij[2]].completed }

\* C28: the record finishSession produces at time now has durationMinutes =
\* floor((now - startTime) / 60000), that is the whole number m of minutes
\* with m * 60000 <= now - startTime < (m + 1) * 60000, and reports "c/t"
\* where c is the number of completed sets and t the number of sets over
\* all exercises; always 0 <= c <= t.
C28_FinishDurationAndCounts ==
    [][ (FinishBegin /\ inflight' # inflight)
        => LET r == inflight'[Len(inflight')]
               elapsed == now - store[1].startTime
           IN  /\ r.durationMinutes * 60000 <= elapsed
               /\ elapsed < (r.durationMinutes + 1) * 60000
               /\ r.totalSets = Cardinality(SetIds(store[1]))
               /\ r.completedSets + Cardinality(IncompleteSets(store[1])) = r.totalSets
               /\ 0 <= r.completedSets
               /\ r.completedSets <= r.totalSets ]_vars

\* C28 witness: a record whose save is in flight reports 42 minutes and
\* some but not all of the sets completed
C28_Witness ==
    /\ inflight # <<>>
    /\ inflight[1].durationMinutes = 42
    /\ 0 < inflight[1].completedSets
    /\ inflight[1].completedSets < inflight[1].totalSets
    /\ store # <<>>
    /\ now - store[1].startTime = 42 * 60000

\* the sets of an exercise that are completed and carry a timestamp
Stamped(sets) ==
    { k \in DOMAIN sets : sets[k].completed /\ sets[k].completedAt # None }

\* C29: the per-exercise elapsed time of the completion record is undefined
\* when no completed set of the exercise carries a timestamp, zero when
\* exactly one does, and otherwise the latest minus the earliest completion
\* timestamp among those sets; it is never negative.
C29_ExerciseElapsed ==
    store # <<>> =>
        \A i \in DOMAIN store[1].exercises :
            LET sets == store[1].exercises[i].sets
                elapsedMs == completionRecord(store[1], now).exercises[i].elapsedMs
            IN  /\ (elapsedMs = None) <=> (Stamped(sets) = {})
                /\ Cardinality(Stamped(sets)) = 1 => elapsedMs = 0
                /\ Stamped(sets) # {} =>
                      /\ elapsedMs >= 0
                      /\ \E a, b \in Stamped(sets) :
                            /\ elapsedMs = sets[a].completedAt - sets[b].completedAt
                            /\ \A k \in Stamped(sets) :
                                  /\ sets[b].completedAt <= sets[k].completedAt
                                  /\ sets[k].completedAt <= sets[a].completedAt

\* C29 witness: finish has read a session in which the two sets of the first
\* exercise were completed 42 minutes apart and the second exercise has no
\* completed set
C29_Witness ==
    /\ inflight # <<>>
    /\ store # <<>>
    /\ completionRecord(store[1], now).exercises[0].elapsedMs = 42 * 60000
    /\ Stamped(store[1].exercises[1].sets) = {}
    /\ completionRecord(store[1], now).exercises[1].elapsedMs = None

\* the record r mirrors the session aw: same exercises in the same order,
\* every set with the session's number, weight, flag and timestamp, the
\* session's own display name, and the day the session started on
Mirrors(r, aw) ==
    /\ DOMAIN r.exercises = DOMAIN aw.exercises
    /\ \A i \in DOMAIN aw.exercises :
          /\ r.exercises[i].exerciseId = aw.exercises[i].exerciseId
          /\ DOMAIN r.exercises[i].sets = DOMAIN aw.exercises[i].sets
          /\ \A j \in DOMAIN aw.exercises[i].sets :
                LET rs == r.exercises[i].sets[j]
                    ss == aw.exercises[i].sets[j]
                IN  /\ rs.setNumber = ss.setNumber
                    /\ rs.weight = ss.weight
                    /\ rs.completed = ss.completed
                    /\ rs.completedAt = ss.completedAt
    /\ r.programName = aw.programName
    /\ r.date * (24 * 60 * MsPerMinute) <= aw.startTime
    /\ aw.startTime < (r.date + 1) * (24 * 60 * MsPerMinute)

\* C30: the completion record finishSession builds mirrors the session at
\* the moment finish reads it: the exercises in session order with the same
\* exerciseId, each set with the session's setNumber, weight, completed flag
\* and completion timestamp, the display name captured in the session at
\* creation (not the catalog's current name), and the session's start date.
C30_RecordMirrorsSession ==
    /\ [](Resumable => Mirrors(completionRecord(store[1], now), store[1]))
    /\ [][ (FinishBegin /\ inflight' # inflight)
           => LET r == inflight'[Len(inflight')]
              IN  /\ r.programName = store[1].programName
                  /\ r.date = completionRecord(store[1], now).date
                  /\ \A ij \in SetIds(store[1]) :
                        r.completed[ij[1]][ij[2]]
                          = store[1].exercises[ij[1]].sets[ij[2]].completed ]_vars

\* C30 witness: the save in flight is of a session with a weighed completed
\* set, started the day before, whose program was renamed after the session
\* was created: the record carries the session's name and start day
C30_Witness ==
    /\ inflight # <<>>
    /\ store # <<>>
    /\ store[1].programId \in DOMAIN catalog
    /\ catalog[store[1].programId] \in EditedNames
    /\ inflight[1].programName = Programs[store[1].programId].displayName
    /\ inflight[1].date = 0
    /\ now >= 24 * 60 * MsPerMinute
    /\ \E ij \in SetIds(store[1]) :
          /\ inflight[1].completed[ij[1]][ij[2]]
          /\ store[1].exercises[ij[1]].sets[ij[2]].weight \in WeightInputs

\* the weights a set can be recorded with: every number of the weight input
RecordedLoads == MemoryWeightInputs \ {None}

\* C31: Weight Memory read-after-write: after setLastUsedWeight(e, w) a
\* following getLastUsedWeight(e) returns w and the entries of the other
\* exercises are unchanged, also when the stored blob was absent or corrupt
\* before (it then behaves as an empty mapping); getLastUsedWeight on a
\* corrupt or absent blob returns absent.
C31_WeightReadAfterWrite ==
    /\ weightBlob.kind # "map" =>
            \A e \in ExerciseIds : getLastUsedWeight(weightBlob, e) = None
    /\ \A e \in ExerciseIds, w \in RecordedLoads :
            LET written == saveLastUsedWeight(weightBlob, e, w, TRUE)
            IN  /\ getLastUsedWeight(written, e) = w
                /\ \A f \in ExerciseIds \ {e} :
                        getLastUsedWeight(written, f) = getLastUsedWeight(weightBlob, f)

\* C32: completeSet with a recorded load L (any number, 0 included) stores L
\* as the weight of the set and writes L to Weight Memory under the
\* exercise's identifier; when the write to Weight Memory fails the set is
\* still completed, advancement happens and the session is persisted.
C32_CompleteSetRecordsLoad ==
    [][ \A L \in RecordedLoads, setItemOk \in BOOLEAN :
        \A ij \in (IF store = <<>> THEN {} ELSE SetIds(store[1])) :
          ( /\ NewlyCompleted(ij)
            /\ CompleteSetClick(L, setItemOk) )
          => /\ store'[1].exercises[ij[1]].sets[ij[2]].weight = L
             /\ store' = completeSet(Mach, catalog, ij[1], ij[2], L, now).store
             /\ setItemOk =>
                   getLastUsedWeight(weightBlob',
                       store[1].exercises[ij[1]].exerciseId) = L ]_vars

C34_CountdownFromAnchor ==
    restLive > 0
    => /\ store # <<>>
       /\ store[1].isResting
       /\ store[1].restStartTime # None
       /\ store[1].restDuration # None
       /\ restEndTime = store[1].restStartTime + store[1].restDuration

\* C35: a single session yields at most one completion record handed to
\* addWorkout, also when the end button is clicked and confirmed a second
\* time while the save of the first click is still awaited: no second
\* record of the session joins one that is in flight.
C35_OneRecordPerSession ==
    [][ Len(inflight') > Len(inflight) => inflight = <<>> ]_vars

\* every set of the session is completed
AllSetsCompleted(aw) ==
    \A ij \in SetIds(aw) : aw.exercises[ij[1]].sets[ij[2]].completed

\* C36: when completeSet is only invoked for the current set of the current
\* exercise, on programs whose exercises all have a set, then in every
\* reachable state the completed sets of each exercise form a prefix of its
\* sets, every exercise before currentExerciseIndex is fully completed, and
\* currentExerciseIndex with that exercise's currentSet designates an
\* incomplete set unless every set of the session is completed.
C36_ActiveSetNeverLocked ==
    ( /\ store # <<>>
      /\ \A i \in DOMAIN store[1].exercises : DOMAIN store[1].exercises[i].sets # {} )
    => LET aw == store[1]
           current == aw.currentExerciseIndex
       IN  /\ \A ij \in SetIds(aw) :
                 aw.exercises[ij[1]].sets[ij[2]].completed
                 => \A j \in 0..ij[2] : aw.exercises[ij[1]].sets[j].completed
           /\ \A i \in DOMAIN aw.exercises :
                 i < current
                 => \A j \in DOMAIN aw.exercises[i].sets :
                        aw.exercises[i].sets[j].completed
           /\ current \in DOMAIN aw.exercises
           /\ aw.exercises[current].currentSet \in DOMAIN aw.exercises[current].sets
           /\ \/ AllSetsCompleted(aw)
              \/ ~aw.exercises[current].sets[aw.exercises[current].currentSet].completed

\* C36 witness: a session of four exercises in which the first three are
\* completed and the fourth is the current one, with its first set
\* completed and its second set the current set
C36_Witness ==
    /\ store # <<>>
    /\ Cardinality(DOMAIN store[1].exercises) = 4
    /\ store[1].currentExerciseIndex = 3
    /\ store[1].exercises[3].currentSet = 1
    /\ store[1].exercises[3].sets[0].completed
    /\ ~store[1].exercises[3].sets[1].completed

\* C37: the rest countdown ends a rest period on its own only when
\* now >= rest end-time: a tick of the countdown that ends the rest (the
\* end-time is cleared, the persisted session stops resting) happens at or
\* after the countdown's end-time, and at or after restStartTime +
\* restDuration of the persisted rest.
C37_NoEarlyExpiry ==
    [][ ( /\ restEndTime # None
          /\ restEndTime' = None
          /\ RestTick )
        => /\ now >= restEndTime
           /\ (store # <<>> /\ store[1].isResting)
              => now >= store[1].restStartTime + store[1].restDuration ]_vars

\* C38: for an exercise whose restTime is 0, completeSet with sets of the
\* exercise still remaining behaves as `no rest': when it returns, the
\* persisted session is not resting and has no rest anchor, and no
\* rest-countdown interval is left running.
C38_ZeroRestIsNoRest ==
    [][ \A ij \in (IF store = <<>> THEN {} ELSE SetIds(store[1])) :
          ( /\ NewlyCompleted(ij)
            /\ LowestIncomplete(store'[1].exercises[ij[1]]) # 0 - 1
            /\ getWorkoutProgramById(catalog, store[1].programId) # <<>>
            /\ getWorkoutProgramById(catalog, store[1].programId)[1]
                    .exercises[ij[1]].restTime = 0
            /\ CompleteSet )
          => /\ ~store'[1].isResting
             /\ store'[1].restStartTime = None
             /\ store'[1].restDuration = None
             /\ restLive' = 0 ]_vars

\* the set that the enabled complete-set button is for
ActiveSet(aw) ==
    aw.exercises[aw.currentExerciseIndex]
      .sets[aw.exercises[aw.currentExerciseIndex].currentSet]

\* the step leaves the sets of the session and its position as they are
ProgressKept ==
    store # <<>>
    => /\ store' # <<>>
       /\ store'[1].exercises = store[1].exercises
       /\ store'[1].currentExerciseIndex = store[1].currentExerciseIndex

\* C39: from a fresh session with T sets, completing the current set of the
\* current exercise each time, exactly T completeSet calls reach the state in
\* which every set is completed, whatever rest, skip, extend and pause
\* operations are interleaved: a started session has no completed set, the
\* call is possible exactly while a set is incomplete, each call completes
\* exactly one more set, no other operation on the session changes its sets
\* or its position, and once every set is completed nothing advances.
C39_ProgressInTotalSets ==
    /\ [](store # <<>>
            => /\ completedSets(store[1]) <= totalSets(store[1])
               /\ ActiveSet(store[1]).completed
                    <=> completedSets(store[1]) = totalSets(store[1]))
    /\ [][ \/ IF CompleteActiveSet
              THEN /\ SameProgram
                   /\ completedSets(store'[1]) = completedSets(store[1]) + 1
              ELSE ProgressKept
           \/ /\ StartWorkout
              /\ store' # <<>>
              /\ completedSets(store'[1]) = 0 ]_vars

\* C39 witness: the five sets of a session of four exercises are completed,
\* the last two at different times, and the session was paused afterwards
C39_Witness ==
    /\ store # <<>>
    /\ Cardinality(DOMAIN store[1].exercises) = 4
    /\ completedSets(store[1]) = 5
    /\ totalSets(store[1]) = 5
    /\ store[1].exercises[3].sets[1].completedAt
          > store[1].exercises[3].sets[0].completedAt
    /\ store[1].paused

\* C40: if a rest countdown is armed, its ticks keep firing, the clock
\* advances and addRestTime is invoked only finitely often, then eventually
\* the rest countdown is disarmed and the persisted session is not resting.
C40_RestEventuallyEnds ==
    (restLive > 0)
    ~> ( /\ restLive = 0
         /\ restEndTime = None
         /\ store # <<>> => ~store[1].isResting )

====
